---- MODULE Spec2Model ----
(***************************************************************************)
(* fetch_pubmed.py: search PubMed, fetch the article markup, keep the      *)
(* articles with at least one author whose affiliation names a company,    *)
(* and report them.  Text is modelled as a sequence of one-character       *)
(* strings; the parsed markup is modelled as the tree xmltodict builds.    *)
(***************************************************************************)
EXTENDS Integers, Sequences, FiniteSets, TLC

VARIABLES entry, args, world, run, twin

vars == <<entry, args, world, run, twin>>

(***************************************************************************)
(* Bounds of the model.                                                    *)
(***************************************************************************)
MaxArticles == 2
MaxIds == 2

(***************************************************************************)
(* Text.                                                                   *)
(***************************************************************************)
UpperCase ==
  <<"A", "B", "C", "D", "E", "F", "G", "H", "I", "J", "K", "L", "M",
    "N", "O", "P", "Q", "R", "S", "T", "U", "V", "W", "X", "Y", "Z">>

LowerCase ==
  <<"a", "b", "c", "d", "e", "f", "g", "h", "i", "j", "k", "l", "m",
    "n", "o", "p", "q", "r", "s", "t", "u", "v", "w", "x", "y", "z">>

\* the lower-case letter of each upper-case letter
LowerOf ==
  [c \in {UpperCase[i] : i \in DOMAIN UpperCase} |->
     LowerCase[CHOOSE i \in DOMAIN UpperCase : UpperCase[i] = c]]

LowerChar(c) == IF c \in DOMAIN LowerOf THEN LowerOf[c] ELSE c

\* str.lower()
lower(s) == [i \in DOMAIN s |-> LowerChar(s[i])]

\* needle in haystack (Python substring test)
Contains(haystack, needle) ==
  \E i \in 0..(Len(haystack) - Len(needle)) :
    SubSeq(haystack, i + 1, i + Len(needle)) = needle

IsSpace(c) == c = " "

RECURSIVE lstrip(_)
lstrip(s) ==
  IF s # <<>> /\ IsSpace(Head(s)) THEN lstrip(Tail(s)) ELSE s

RECURSIVE rstrip(_)
rstrip(s) ==
  IF s # <<>> /\ IsSpace(s[Len(s)]) THEN rstrip(SubSeq(s, 1, Len(s) - 1)) ELSE s

\* str.strip()
strip(s) == rstrip(lstrip(s))

RECURSIVE TakeToken(_)
TakeToken(s) ==
  IF s = <<>> \/ IsSpace(Head(s)) THEN <<>> ELSE <<Head(s)>> \o TakeToken(Tail(s))

\* str.split(): the whitespace-delimited tokens
RECURSIVE split(_)
split(s) ==
  LET t == lstrip(s)
      tok == TakeToken(t)
  IN IF t = <<>> THEN <<>>
     ELSE <<tok>> \o split(SubSeq(t, Len(tok) + 1, Len(t)))

RECURSIVE join(_, _)
join(sep, parts) ==
  IF parts = <<>> THEN <<>>
  ELSE IF Len(parts) = 1 THEN parts[1]
  ELSE parts[1] \o sep \o join(sep, Tail(parts))

COMPANY_KEYWORDS ==
  << <<"P", "h", "a", "r", "m", "a", "c", "e", "u", "t", "i", "c", "a", "l">>,
     <<"B", "i", "o", "t", "e", "c", "h">>,
     <<"B", "i", "o", "t", "e", "c", "h", "n", "o", "l", "o", "g", "y">>,
     <<"T", "h", "e", "r", "a", "p", "e", "u", "t", "i", "c", "s">>,
     <<"P", "h", "a", "r", "m", "a">>,
     <<"B", "i", "o", "P", "h", "a", "r", "m", "a">>,
     <<"L", "i", "f", "e", " ", "S", "c", "i", "e", "n", "c", "e", "s">>,
     <<"B", "i", "o", "s", "c", "i", "e", "n", "c", "e", "s">>,
     <<"D", "r", "u", "g", " ", "D", "e", "v", "e", "l", "o", "p", "m", "e", "n", "t">>,
     <<"M", "e", "d", "i", "c", "i", "n", "e", "s">>,
     <<"I", "n", "c", ".">>,
     <<"L", "t", "d", ".">>,
     <<"C", "o", "r", "p", ".">>,
     <<"G", "m", "b", "H">>,
     <<"S", ".", "A", ".">>,
     <<"S", ".", "p", ".", "A", ".">>,
     <<"L", "L", "C">> >>

(***************************************************************************)
(* Python values: None, str, dict, list.  Fault is the value of an         *)
(* expression that raises.                                                 *)
(***************************************************************************)
None == [k |-> "none"]
Str(s) == [k |-> "str", s |-> s]
Dict(d) == [k |-> "dict", d |-> d]
List(l) == [k |-> "list", l |-> l]
Fault == [k |-> "fault"]

IsFault(v) == v.k = "fault"

\* d.get(key, default): AttributeError unless d is a dict
Get(d, key, default) ==
  IF d.k # "dict" THEN Fault
  ELSE IF key \in DOMAIN d.d THEN d.d[key] ELSE default

\* d[key]: KeyError on a dict without the key, TypeError on None, str, list
Index(d, key) ==
  IF d.k = "dict" /\ key \in DOMAIN d.d THEN d.d[key] ELSE Fault

\* isinstance(v, list)
IsList(v) == v.k = "list"

\* the single-vs-many coercion: if not isinstance(v, list): v = [v]
AsList(v) == IF IsList(v) THEN v.l ELSE <<v>>

\* truth value of a value
Truthy(v) ==
  CASE v.k = "none" -> FALSE
    [] v.k = "str" -> v.s # <<>>
    [] v.k = "dict" -> DOMAIN v.d # {}
    [] v.k = "list" -> v.l # <<>>

(***************************************************************************)
(* Markup.  An element has a tag, attributes, stripped text and children.  *)
(***************************************************************************)
NoAttrs == [a \in {} |-> <<>>]

El(tag, attrs, text, children) ==
  [tag |-> tag, attrs |-> attrs, text |-> text, children |-> children]

ChildrenOf(el, tag) == SelectSeq(el.children, LAMBDA c : c.tag = tag)

\* xmltodict: an element without attributes and children is its text, or
\* None when it has none; otherwise a dict of its attributes, its children
\* grouped by tag (one child: its value, several: a list) and its text.
RECURSIVE ToValue(_)
ToValue(el) ==
  IF DOMAIN el.attrs = {} /\ el.children = <<>>
    THEN IF el.text = <<>> THEN None ELSE Str(el.text)
    ELSE
      LET tags == {el.children[i].tag : i \in DOMAIN el.children}
          keys == DOMAIN el.attrs \cup tags
                    \cup (IF el.text = <<>> THEN {} ELSE {"#text"})
      IN Dict([key \in keys |->
                IF key \in DOMAIN el.attrs THEN Str(el.attrs[key])
                ELSE IF key = "#text" THEN Str(el.text)
                ELSE LET same == ChildrenOf(el, key)
                     IN IF Len(same) = 1 THEN ToValue(same[1])
                        ELSE List([i \in DOMAIN same |-> ToValue(same[i])])])

\* xmltodict.parse: ExpatError on text that is not well-formed
parse(xml_data) ==
  IF xml_data.kind # "xml" THEN Fault
  ELSE Dict([key \in {xml_data.root.tag} |-> ToValue(xml_data.root)])

(***************************************************************************)
(* Python operations on values that can raise.                             *)
(***************************************************************************)
KeyText(key) ==
  CASE key = "Year" -> <<"Y", "e", "a", "r">>
    [] key = "MedlineDate" ->
         <<"M", "e", "d", "l", "i", "n", "e", "D", "a", "t", "e">>
    [] key = "AffiliationInfo" ->
         <<"A", "f", "f", "i", "l", "i", "a", "t", "i", "o", "n", "I", "n", "f", "o">>

\* key in v: a key of a dict, a substring of a str, an element of a list,
\* TypeError on None.  "yes", "no" or "fault".
In(key, v) ==
  CASE v.k = "dict" -> IF key \in DOMAIN v.d THEN "yes" ELSE "no"
    [] v.k = "str" -> IF Contains(v.s, KeyText(key)) THEN "yes" ELSE "no"
    [] v.k = "list" ->
         IF \E i \in DOMAIN v.l : v.l[i] = Str(KeyText(key)) THEN "yes" ELSE "no"
    [] OTHER -> "fault"

\* tokens[0]: IndexError on an empty list
First(tokens) == IF tokens = <<>> THEN Fault ELSE Str(tokens[1])

\* v.split()[0]: AttributeError unless v is a str
SplitFirst(v) == IF v.k # "str" THEN Fault ELSE First(split(v.s))

NoneText == <<"N", "o", "n", "e">>
ReprText == <<"{", ".", ".", ".", "}">>

\* the text an f-string puts for a value (a dict's or list's repr is not
\* spelled out)
Format(v) ==
  CASE v.k = "str" -> v.s
    [] v.k = "none" -> NoneText
    [] OTHER -> ReprText

EmptyDict == Dict([key \in {} |-> None])

NoTitle == <<"N", "o", " ", "T", "i", "t", "l", "e">>
UnknownDate == <<"U", "n", "k", "n", "o", "w", "n", " ", "D", "a", "t", "e">>
NotAvailable == <<"N", "o", "t", " ", "A", "v", "a", "i", "l", "a", "b", "l", "e">>

(***************************************************************************)
(* extract_paper_data, one article.                                        *)
(***************************************************************************)
\* keyword.lower() for each keyword
KeywordsLower == [i \in DOMAIN COMPANY_KEYWORDS |-> lower(COMPANY_KEYWORDS[i])]

\* any(keyword.lower() in text for keyword in COMPANY_KEYWORDS)
AnyKeywordIn(text) ==
  \E i \in DOMAIN KeywordsLower : Contains(text, KeywordsLower[i])

\* mutant: the comparison without .lower()
MatchesKeyword_CaseSensitive(affiliation) ==
  \E i \in DOMAIN COMPANY_KEYWORDS : Contains(affiliation, COMPANY_KEYWORDS[i])

\* any(keyword.lower() in affiliation.lower() for keyword in COMPANY_KEYWORDS)
MatchesKeyword(affiliation) == AnyKeywordIn(lower(affiliation))

\* mutant: the loop without the break, the last match is kept
RECURSIVE ScanAffiliations_LastMatch(_, _)
ScanAffiliations_LastMatch(affiliations, author_name) ==
  IF affiliations = <<>> THEN None
  ELSE
    LET affiliation == Get(affiliations[1], "Affiliation", Str(<<>>))
        later == ScanAffiliations_LastMatch(Tail(affiliations), author_name)
    IN IF affiliation.k # "str" \/ IsFault(later) THEN Fault
       ELSE IF later.k = "str" THEN later
       ELSE IF MatchesKeyword(affiliation.s)
         THEN Str(author_name \o <<" ", "(">> \o affiliation.s \o <<")">>)
       ELSE None

\* the loop over one author's affiliations: the entry of the first match
\* (break), None when nothing matches, Fault when an affiliation raises
RECURSIVE ScanAffiliations(_, _)
ScanAffiliations(affiliations, author_name) ==
  IF affiliations = <<>> THEN None
  ELSE
    LET affiliation == Get(affiliations[1], "Affiliation", Str(<<>>))
    IN IF affiliation.k # "str" THEN Fault
       ELSE IF MatchesKeyword(affiliation.s)
         THEN Str(author_name \o <<" ", "(">> \o affiliation.s \o <<")">>)
       ELSE ScanAffiliations(Tail(affiliations), author_name)

\* f"{author.get('ForeName', '')} {author.get('LastName', '')}".strip()
AuthorName(author) ==
  strip(Format(Get(author, "ForeName", Str(<<>>))) \o <<" ">>
          \o Format(Get(author, "LastName", Str(<<>>))))

\* one pass of the loop over the authors
AuthorEntry(author) ==
  LET has == In("AffiliationInfo", author)
  IN IF has = "fault" THEN Fault
     ELSE IF has = "no" THEN None
     ELSE IF IsFault(Index(author, "AffiliationInfo")) THEN Fault
     ELSE ScanAffiliations(AsList(Index(author, "AffiliationInfo")),
                           AuthorName(author))

\* non_academic_authors after one more author: e is the author's entry,
\* rest the outcome for the authors after it
AddAuthor(e, rest) ==
  IF IsFault(e) \/ rest.fault THEN [fault |-> TRUE, l |-> <<>>]
  ELSE IF e.k = "none" THEN rest
  ELSE [fault |-> FALSE, l |-> <<e.s>> \o rest.l]

\* the loop over the authors: [fault, l] with l the non_academic_authors
\* list after the loop, fault when an author raised
RECURSIVE ScanAuthors(_)
ScanAuthors(authors) ==
  IF authors = <<>> THEN [fault |-> FALSE, l |-> <<>>]
  ELSE AddAuthor(AuthorEntry(authors[1]), ScanAuthors(Tail(authors)))

\* mutant: the MedlineDate is taken whole, without .split()[0]
PubDate_WholeMedlineDate(article_info) ==
  LET pub_date_info ==
        Get(Get(Get(article_info, "Journal", EmptyDict),
                "JournalIssue", EmptyDict), "PubDate", EmptyDict)
  IN IF IsFault(pub_date_info) THEN Fault
     ELSE IF In("Year", pub_date_info) = "fault" THEN Fault
     ELSE IF In("Year", pub_date_info) = "yes" THEN Index(pub_date_info, "Year")
     ELSE IF In("MedlineDate", pub_date_info) = "yes"
       THEN Index(pub_date_info, "MedlineDate")
     ELSE Str(UnknownDate)

\* the publication date of an article
PubDate(article_info) ==
  LET pub_date_info ==
        Get(Get(Get(article_info, "Journal", EmptyDict),
                "JournalIssue", EmptyDict), "PubDate", EmptyDict)
  IN IF IsFault(pub_date_info) THEN Fault
     ELSE IF In("Year", pub_date_info) = "fault" THEN Fault
     ELSE IF In("Year", pub_date_info) = "yes" THEN Index(pub_date_info, "Year")
     ELSE IF In("MedlineDate", pub_date_info) = "yes"
       THEN SplitFirst(Index(pub_date_info, "MedlineDate"))
     ELSE Str(UnknownDate)

\* the authors of an article as a list value
Authors(article_info) ==
  LET author_list == Get(article_info, "AuthorList", EmptyDict)
  IN IF IsFault(author_list) THEN Fault
     ELSE IF Truthy(author_list)
       THEN LET authors == Get(author_list, "Author", List(<<>>))
            IN IF IsFault(authors) THEN Fault ELSE List(AsList(authors))
     ELSE List(<<>>)

\* the loop over the authors of an article
NonAcademicAuthors(authors) ==
  IF IsFault(authors) THEN [fault |-> TRUE, l |-> <<>>]
  ELSE ScanAuthors(authors.l)

\* the end of the try block: [fault, emit, paper, n] with n the number of
\* non-academic authors; fault when one of the values raised
Outcome(pmid, title, pub_date, scan) ==
  IF IsFault(pmid) \/ IsFault(title) \/ IsFault(pub_date) \/ scan.fault
    THEN [fault |-> TRUE, emit |-> FALSE, paper |-> None, n |-> 0]
  ELSE IF scan.l = <<>>
    THEN [fault |-> FALSE, emit |-> FALSE, paper |-> None, n |-> 0]
  ELSE [fault |-> FALSE, emit |-> TRUE, n |-> Len(scan.l),
        paper |-> [PMID |-> pmid,
                   Title |-> title,
                   Publication_Date |-> pub_date,
                   Non_Academic_Authors |-> Str(join(<<";", " ">>, scan.l)),
                   Corresponding_Author_Email |-> Str(NotAvailable)]]

\* article_info = article["MedlineCitation"]["Article"] and what follows
ProcessInfo(pmid, article_info) ==
  Outcome(pmid,
          Get(article_info, "ArticleTitle", Str(NoTitle)),
          PubDate(article_info),
          NonAcademicAuthors(Authors(article_info)))

\* the body of the try block for one article
ProcessArticle(article) ==
  ProcessInfo(Index(Index(Index(article, "MedlineCitation"), "PMID"), "#text"),
              Index(Index(article, "MedlineCitation"), "Article"))

(***************************************************************************)
(* Printed lines: the message, a number and the values it shows.           *)
(***************************************************************************)
Line(msg, n, v) == [msg |-> msg, n |-> n, v |-> v]

\* a line printed only when debug is set
Debug(debug, msg, n, v) == IF debug THEN <<Line(msg, n, v)>> ELSE <<>>

(***************************************************************************)
(* extract_paper_data                                                      *)
(***************************************************************************)
\* mutant: an exception ends the loop, the later articles are not processed
Collect_Abort(r, rest, debug) ==
  IF r.fault
    THEN [papers |-> <<>>,
          diag |-> Debug(debug, "[DEBUG] Error processing article", 0, <<>>)]
  ELSE IF r.emit
    THEN [papers |-> <<r.paper>> \o rest.papers,
          diag |-> Debug(debug, "[DEBUG] Added paper", r.n, <<r.paper.PMID>>)
                     \o rest.diag]
  ELSE rest

\* mutant: the append sits inside the if debug block
Collect_DebugOnly(r, rest, debug) ==
  IF r.fault
    THEN [papers |-> rest.papers,
          diag |-> Debug(debug, "[DEBUG] Error processing article", 0, <<>>)
                     \o rest.diag]
  ELSE IF r.emit /\ debug
    THEN [papers |-> <<r.paper>> \o rest.papers,
          diag |-> Debug(debug, "[DEBUG] Added paper", r.n, <<r.paper.PMID>>)
                     \o rest.diag]
  ELSE rest

\* one pass of the for loop: r is the outcome of the try block, rest the
\* papers and debug lines of the passes after it
Collect(r, rest, debug) ==
  IF r.fault
    THEN [papers |-> rest.papers,
          diag |-> Debug(debug, "[DEBUG] Error processing article", 0, <<>>)
                     \o rest.diag]
  ELSE IF r.emit
    THEN [papers |-> <<r.paper>> \o rest.papers,
          diag |-> Debug(debug, "[DEBUG] Added paper", r.n, <<r.paper.PMID>>)
                     \o rest.diag]
  ELSE rest

\* the for loop over the articles: [papers, diag]
RECURSIVE ExtractLoop(_, _)
ExtractLoop(articles, debug) ==
  IF articles = <<>> THEN [papers |-> <<>>, diag |-> <<>>]
  ELSE Collect(ProcessArticle(articles[1]), ExtractLoop(Tail(articles), debug), debug)

\* if not isinstance(articles, list): articles = [articles]
Coerce(articles) ==
  IF IsFault(articles) THEN Fault ELSE List(AsList(articles))

\* the article collection of the parsed markup, as a list; Fault when the
\* parse or one of the two .get calls raises
Articles(xml_data) ==
  Coerce(Get(Get(parse(xml_data), "PubmedArticleSet", EmptyDict),
             "PubmedArticle", List(<<>>)))

\* what the call returns once the loop is over
Extracted(articles, loop, debug) ==
  [fault |-> FALSE,
   papers |-> loop.papers,
   diag |-> Debug(debug, "[DEBUG] Starting XML parsing...", 0, <<>>)
              \o Debug(debug, "[DEBUG] Found articles to process", Len(articles), <<>>)
              \o loop.diag
              \o Debug(debug, "[DEBUG] Total papers with non-academic authors",
                       Len(loop.papers), <<>>)]

\* the call from the article collection on
ExtractFrom(articles, debug) ==
  IF IsFault(articles)
    THEN [fault |-> TRUE, papers |-> <<>>,
          diag |-> Debug(debug, "[DEBUG] Starting XML parsing...", 0, <<>>)]
  ELSE Extracted(articles.l, ExtractLoop(articles.l, debug), debug)

\* [fault, papers, diag]: fault when the call raises instead of returning
extract_paper_data(xml_data, debug) == ExtractFrom(Articles(xml_data), debug)

(***************************************************************************)
(* search_pubmed                                                           *)
(***************************************************************************)
OK == 200

SearchRequest(query, max_results) ==
  [url |-> "esearch.fcgi",
   params |-> [db |-> "pubmed", term |-> query, retmax |-> max_results,
               retmode |-> "json", sort |-> "date"]]

\* [ids, requests, console, diag] for the response the request gets
search_pubmed(query, max_results, debug, response) ==
  LET sent == Debug(debug, "[DEBUG] Sending request to PubMed with params", 0, <<>>)
                \o Debug(debug, "[DEBUG] PubMed Search URL", 0, <<>>)
      id_list == Get(Get(response.json, "esearchresult", EmptyDict),
                     "idlist", List(<<>>))
  IN IF response.status_code = OK
       THEN [ids |-> [i \in DOMAIN id_list.l |-> id_list.l[i].s],
             requests |-> <<SearchRequest(query, max_results)>>,
             console |-> <<>>,
             diag |-> sent \o Debug(debug, "[DEBUG] Found PMIDs", Len(id_list.l), <<>>)]
     ELSE [ids |-> <<>>,
           requests |-> <<SearchRequest(query, max_results)>>,
           console |-> <<Line("Error fetching PubMed search results",
                              response.status_code, <<>>)>>,
           diag |-> sent]

(***************************************************************************)
(* fetch_paper_details                                                     *)
(***************************************************************************)
\* mutant: the request carries the first identifier only
FetchRequest_FirstOnly(pmids) ==
  [url |-> "efetch.fcgi",
   params |-> [db |-> "pubmed", id |-> pmids[1], retmode |-> "xml"]]

FetchRequest(pmids) ==
  [url |-> "efetch.fcgi",
   params |-> [db |-> "pubmed", id |-> join(<<",">>, pmids), retmode |-> "xml"]]

\* mutant: without the early return for an empty identifier list
fetch_paper_details_NoGuard(pmids, debug, response) ==
  IF response.status_code = OK
    THEN [xml_data |-> response.text,
          requests |-> <<[url |-> "efetch.fcgi",
                          params |-> [db |-> "pubmed", id |-> join(<<",">>, pmids),
                                      retmode |-> "xml"]]>>,
          console |-> <<>>,
          diag |-> Debug(debug, "[DEBUG] Fetching details for PMIDs", Len(pmids), <<>>)]
  ELSE [xml_data |-> None,
        requests |-> <<[url |-> "efetch.fcgi",
                        params |-> [db |-> "pubmed", id |-> join(<<",">>, pmids),
                                    retmode |-> "xml"]]>>,
        console |-> <<Line("Error fetching paper details",
                           response.status_code, <<>>)>>,
        diag |-> Debug(debug, "[DEBUG] Fetching details for PMIDs", Len(pmids), <<>>)]

\* [xml_data, requests, console, diag]; xml_data is None or the response text
fetch_paper_details(pmids, debug, response) ==
  IF pmids = <<>>
    THEN [xml_data |-> None, requests |-> <<>>, console |-> <<>>, diag |-> <<>>]
  ELSE
    LET diag == Debug(debug, "[DEBUG] Fetching details for PMIDs", Len(pmids), <<>>)
                  \o Debug(debug, "[DEBUG] PubMed Fetch URL", 0, <<>>)
                  \o Debug(debug, "[DEBUG] Response status", response.status_code, <<>>)
    IN IF response.status_code = OK
         THEN [xml_data |-> response.text,
               requests |-> <<FetchRequest(pmids)>>,
               console |-> <<>>,
               diag |-> diag]
       ELSE [xml_data |-> None,
             requests |-> <<FetchRequest(pmids)>>,
             console |-> <<Line("Error fetching paper details",
                                response.status_code, <<>>)>>,
             diag |-> diag]

(***************************************************************************)
(* save_to_csv                                                             *)
(***************************************************************************)
Columns ==
  <<"PMID", "Title", "Publication Date", "Non-Academic Authors",
    "Corresponding Author Email">>

Row(paper) ==
  <<paper.PMID, paper.Title, paper.Publication_Date,
    paper.Non_Academic_Authors, paper.Corresponding_Author_Email>>

\* [fault, disk, console]: the write raises when the path cannot be written
save_to_csv(papers, filename, writable) ==
  IF writable
    THEN [fault |-> FALSE,
          disk |-> <<[path |-> filename, header |-> Columns,
                      rows |-> [i \in DOMAIN papers |-> Row(papers[i])]]>>,
          console |-> <<Line("Results saved to", 0, <<filename>>)>>]
  ELSE [fault |-> TRUE, disk |-> <<>>, console |-> <<>>]

(***************************************************************************)
(* main, one step per stage.  A run's state:                               *)
(*   pc        where main is: "search", "fetch", "extract", "report",      *)
(*             "done" (returned) or "raised" (an exception propagated)     *)
(*   pmids, xml_data, papers   main's locals                               *)
(*   requests  the HTTP requests issued so far                             *)
(*   console   the lines printed that are not debug lines                  *)
(*   diag      the [DEBUG] lines printed                                   *)
(*   disk      the files written                                           *)
(***************************************************************************)
\* not xml_data
NoData(xml_data) ==
  xml_data.k = "none" \/ (xml_data.k = "text" /\ xml_data.kind = "empty")

\* lines 161-169, r what search_pubmed returned
after_search(s, a, r) ==
  [s EXCEPT
     !.requests = @ \o r.requests,
     !.console = @ \o <<Line("Searching PubMed for:", 0, <<a.query>>)>>
                   \o r.console
                   \o (IF r.ids = <<>>
                         THEN <<Line("No articles found.", 0, <<>>)>> ELSE <<>>),
     !.diag = @ \o Debug(a.debug, "[DEBUG] Arguments:", 0, <<>>) \o r.diag,
     !.pmids = r.ids,
     !.pc = IF r.ids = <<>> THEN "done" ELSE "fetch"]

main_search(s, a, response) ==
  after_search(s, a, search_pubmed(a.query, a.max, a.debug, response))

\* lines 171-176, r what fetch_paper_details returned
after_fetch(s, r) ==
  [s EXCEPT
     !.requests = @ \o r.requests,
     !.console = @ \o <<Line("Fetching article details...", 0, <<>>)>>
                   \o r.console
                   \o (IF NoData(r.xml_data)
                         THEN <<Line("No data retrieved.", 0, <<>>)>> ELSE <<>>),
     !.diag = @ \o r.diag,
     !.xml_data = r.xml_data,
     !.pc = IF NoData(r.xml_data) THEN "done" ELSE "extract"]

main_fetch(s, a, response) ==
  after_fetch(s, fetch_paper_details(s.pmids, a.debug, response))

\* lines 178-179, r what extract_paper_data returned or that it raised
after_extract(s, r) ==
  IF r.fault
    THEN [s EXCEPT
            !.console = @ \o <<Line("Extracting required details...", 0, <<>>)>>,
            !.diag = @ \o r.diag,
            !.pc = "raised", !.fault = "extract_paper_data"]
  ELSE [s EXCEPT
          !.console = @ \o <<Line("Extracting required details...", 0, <<>>)>>,
          !.diag = @ \o r.diag,
          !.papers = r.papers, !.pc = "report"]

main_extract(s, a) == after_extract(s, extract_paper_data(s.xml_data, a.debug))

\* the three lines printed for a paper, lines 188-190
PaperLines(paper) ==
  <<Line("PMID: , Title: , Date: ", 0,
         <<paper.PMID, paper.Title, paper.Publication_Date>>),
    Line("Non-Academic Authors: ", 0, <<paper.Non_Academic_Authors>>),
    Line("Corresponding Email: ", 0, <<paper.Corresponding_Author_Email>>)>>

RECURSIVE PrintPapers(_)
PrintPapers(papers) ==
  IF papers = <<>> THEN <<>>
  ELSE PaperLines(papers[1]) \o PrintPapers(Tail(papers))

\* lines 183-184, r what save_to_csv did
after_save(s, a, r) ==
  IF r.fault
    THEN [s EXCEPT !.pc = "raised", !.fault = "save_to_csv"]
  ELSE [s EXCEPT
          !.disk = @ \o r.disk,
          !.console = @ \o r.console
            \o <<Line("Saved papers with non-academic authors to",
                      Len(s.papers), <<a.file>>)>>,
          !.pc = "done"]

\* mutant: the file option is tested before the papers
main_report_FileFirst(s, a, writable) ==
  IF Truthy(a.file)
    THEN after_save(s, a, save_to_csv(s.papers, a.file, writable))
  ELSE IF s.papers # <<>>
    THEN [s EXCEPT
            !.console = @ \o <<Line("Extracted Papers:", 0, <<>>)>>
                          \o PrintPapers(s.papers),
            !.pc = "done"]
  ELSE [s EXCEPT
          !.console = @ \o <<Line("No papers found with non-academic authors.",
                                  0, <<>>)>>,
          !.pc = "done"]

\* lines 181-192
main_report(s, a, writable) ==
  IF s.papers # <<>>
    THEN IF Truthy(a.file)
      THEN after_save(s, a, save_to_csv(s.papers, a.file, writable))
    ELSE [s EXCEPT
            !.console = @ \o <<Line("Extracted Papers:", 0, <<>>)>>
                          \o PrintPapers(s.papers),
            !.pc = "done"]
  ELSE [s EXCEPT
          !.console = @ \o <<Line("No papers found with non-academic authors.",
                                  0, <<>>)>>,
          !.pc = "done"]

(***************************************************************************)
(* The functions called on their own.                                      *)
(***************************************************************************)
\* xml_data = fetch_paper_details(pmids, debug)
returned_fetch(s, r) ==
  [s EXCEPT !.requests = @ \o r.requests,
            !.console = @ \o r.console,
            !.diag = @ \o r.diag,
            !.xml_data = r.xml_data,
            !.pc = "done"]

call_fetch_paper_details(s, a, response) ==
  returned_fetch(s, fetch_paper_details(s.pmids, a.debug, response))

\* papers = extract_paper_data(xml_data, debug)
returned_extract(s, r) ==
  IF r.fault
    THEN [s EXCEPT !.diag = @ \o r.diag, !.pc = "raised",
                   !.fault = "extract_paper_data"]
  ELSE [s EXCEPT !.diag = @ \o r.diag, !.papers = r.papers, !.pc = "done"]

call_extract_paper_data(s, a) ==
  returned_extract(s, extract_paper_data(s.xml_data, a.debug))

(***************************************************************************)
(* Inputs: the markup the fetch endpoint can answer with.                  *)
(***************************************************************************)
Leaf(tag, text) == El(tag, NoAttrs, text, <<>>)
Node(tag, children) == El(tag, NoAttrs, <<>>, children)
Opt(tag, text) == IF text = <<>> THEN <<>> ELSE <<Leaf(tag, text)>>

UniversityX == <<"U", "n", "i", "v", "e", "r", "s", "i", "t", "y", " ", "X">>
AcmePharmaInc ==
  <<"A", "c", "m", "e", " ", "P", "h", "a", "r", "m", "a", " ", "I", "n", "c", ".">>
pharmLower ==
  <<"p", "h", "a", "r", "m", "a", "c", "e", "u", "t", "i", "c", "a", "l", " ", "i", "n", "c">>
pharmUpper ==
  <<"P", "H", "A", "R", "M", "A", "C", "E", "U", "T", "I", "C", "A", "L", " ", "I", "N", "C">>
Incorporated == <<"I", "n", "c", "o", "r", "p", "o", "r", "a", "t", "e", "d">>
BetaGmbH == <<"B", "e", "t", "a", " ", "G", "m", "b", "H">>
MedlineJanFeb == <<"2", "0", "2", "0", " ", "J", "a", "n", "-", "F", "e", "b">>
Year2021 == <<"2", "0", "2", "1">>
Year2020 == <<"2", "0", "2", "0">>
Ann == <<"A", "n", "n">>
Lee == <<"L", "e", "e">>
Bo == <<"B", "o">>
SomeTitle == <<"T", "r", "i", "a", "l">>

\* <PMID Version="1">id</PMID>
PMIDEl(id) == El("PMID", [a \in {"@Version"} |-> <<"1">>], id, <<>>)

\* <AffiliationInfo><Affiliation>text</Affiliation></AffiliationInfo>
Aff(text) == Node("AffiliationInfo", <<Leaf("Affiliation", text)>>)

\* an AffiliationInfo with an identifier and no Affiliation element
AffNoText == Node("AffiliationInfo", <<Leaf("Identifier", <<"0">>)>>)

\* <AffiliationInfo/>
AffEmpty == Leaf("AffiliationInfo", <<>>)

AuthorEl(fore, last, affs) ==
  Node("Author", Opt("LastName", last) \o Opt("ForeName", fore) \o affs)

AuthorListEl(authors) ==
  El("AuthorList", [a \in {"@CompleteYN"} |-> <<"Y">>], <<>>, authors)

JournalEl(pubdate) ==
  Node("Journal", <<Node("JournalIssue", <<Node("PubDate", pubdate)>>)>>)

ArticleEl(pmid, inner) ==
  Node("PubmedArticle", <<Node("MedlineCitation", <<pmid, Node("Article", inner)>>)>>)

Industry == AuthorEl(Ann, Lee, <<Aff(UniversityX), Aff(AcmePharmaInc)>>)

\* the articles a batch is drawn from
ArticlePool ==
  { \* one author, the second affiliation names a company
    ArticleEl(PMIDEl(<<"1">>),
      <<JournalEl(<<Leaf("Year", Year2021)>>), Leaf("ArticleTitle", SomeTitle),
        AuthorListEl(<<Industry>>)>>),
    \* academic authors only: no keyword, and an affiliation without text
    ArticleEl(PMIDEl(<<"2">>),
      <<JournalEl(<<Leaf("Year", Year2021)>>), Leaf("ArticleTitle", SomeTitle),
        AuthorListEl(<<AuthorEl(<<>>, Bo, <<Aff(UniversityX)>>),
                       AuthorEl(Ann, Lee, <<Aff(Incorporated), AffNoText>>)>>)>>),
    \* no title, a MedlineDate, a lower-case company affiliation
    ArticleEl(PMIDEl(<<"3">>),
      <<JournalEl(<<Leaf("MedlineDate", MedlineJanFeb)>>),
        AuthorListEl(<<AuthorEl(Ann, <<>>, <<Aff(pharmLower)>>)>>)>>),
    \* no journal; an author with two company affiliations, an author with
    \* no affiliation, an author whose second affiliation names a company
    ArticleEl(PMIDEl(<<"4">>),
      <<Leaf("ArticleTitle", SomeTitle),
        AuthorListEl(<<AuthorEl(Ann, Lee, <<Aff(pharmUpper), Aff(BetaGmbH)>>),
                       AuthorEl(Bo, Bo, <<>>),
                       AuthorEl(<<>>, Lee, <<Aff(UniversityX), Aff(BetaGmbH)>>)>>)>>),
    \* a Year and a MedlineDate; a company affiliation, then <AffiliationInfo/>
    ArticleEl(PMIDEl(<<"5">>),
      <<JournalEl(<<Leaf("Year", Year2021), Leaf("MedlineDate", MedlineJanFeb)>>),
        Leaf("ArticleTitle", SomeTitle),
        AuthorListEl(<<AuthorEl(Ann, Lee, <<Aff(AcmePharmaInc), AffEmpty>>)>>)>>),
    \* <AffiliationInfo/>, then a company affiliation
    ArticleEl(PMIDEl(<<"6">>),
      <<JournalEl(<<Leaf("Year", Year2021)>>), Leaf("ArticleTitle", SomeTitle),
        AuthorListEl(<<AuthorEl(Ann, Lee, <<AffEmpty, Aff(AcmePharmaInc)>>)>>)>>),
    \* a PMID element without attributes
    ArticleEl(Leaf("PMID", <<"7">>),
      <<JournalEl(<<Leaf("Year", Year2021)>>), Leaf("ArticleTitle", SomeTitle),
        AuthorListEl(<<Industry>>)>>),
    \* <PubDate/>
    ArticleEl(PMIDEl(<<"8">>),
      <<JournalEl(<<>>), Leaf("ArticleTitle", SomeTitle),
        AuthorListEl(<<Industry>>)>>),
    \* a company author and <Author/>
    ArticleEl(PMIDEl(<<"9">>),
      <<JournalEl(<<Leaf("Year", Year2021)>>), Leaf("ArticleTitle", SomeTitle),
        AuthorListEl(<<Industry, Leaf("Author", <<>>)>>)>>) }

Batches == UNION {[1..n -> ArticlePool] : n \in 0..MaxArticles}

Text(kind, root) == [k |-> "text", kind |-> kind, root |-> root]

\* <PubmedArticleSet> with the articles of a batch
ArticleSet(batch) == Text("xml", Node("PubmedArticleSet", batch))

\* a set that holds a book article and no PubmedArticle
BookOnly ==
  Text("xml", Node("PubmedArticleSet", <<Leaf("PubmedBookArticle", <<"b">>)>>))

\* an answer with another root element
OtherRoot == Text("xml", Node("eFetchResult", <<Leaf("ERROR", <<"e">>)>>))

Malformed == Text("malformed", None)
EmptyText == Text("empty", None)

Markups ==
  {ArticleSet(batch) : batch \in Batches}
    \cup {BookOnly, OtherRoot, Malformed, EmptyText}

(***************************************************************************)
(* Inputs: identifiers, responses, arguments.                              *)
(***************************************************************************)
IdText == <<"1", "2", "3", "4">>

\* the identifier lists a search can answer with
IdLists == {[i \in 1..n |-> <<IdText[i]>>] : n \in 0..MaxIds}

SearchBody(ids) ==
  Dict([a \in {"esearchresult"} |->
         Dict([b \in {"idlist"} |-> List([i \in DOMAIN ids |-> Str(ids[i])])])])

ErrorBody == Dict([a \in {"error"} |-> Str(<<"e">>)])

SearchResponses ==
  {[status_code |-> OK, json |-> SearchBody(ids)] : ids \in IdLists}
    \cup {[status_code |-> OK, json |-> ErrorBody]}
    \cup {[status_code |-> c, json |-> ErrorBody] : c \in {404, 500}}

FetchResponses ==
  {[status_code |-> OK, text |-> m] : m \in Markups}
    \cup {[status_code |-> 500, text |-> EmptyText]}

DefaultMax == 100
OutPath == Str(<<"o", ".", "c", "s", "v">>)

Entries == {"main", "fetch_paper_details", "extract_paper_data"}

Args(e) ==
  [query : {"mRNA vaccine"}, max : {DefaultMax}, debug : BOOLEAN,
   file : IF e = "main" THEN {None, OutPath, Str(<<>>)} ELSE {None}]

\* the same arguments with the debug flag the other way
TwinArgs == [args EXCEPT !.debug = ~@]

Start(pc, pmids, xml_data) ==
  [pc |-> pc, pmids |-> pmids, xml_data |-> xml_data, papers |-> <<>>,
   requests |-> <<>>, console |-> <<>>, diag |-> <<>>, disk |-> <<>>,
   fault |-> "none"]

(***************************************************************************)
(* The state machine.  run is the run with the arguments args, twin the    *)
(* run with TwinArgs that gets the same responses; world is the responses  *)
(* received so far: the search responses, the status codes of the fetch    *)
(* responses, the outcomes of the file writes.                             *)
(***************************************************************************)
Init ==
  /\ entry \in Entries
  /\ args \in Args(entry)
  /\ world = [search |-> <<>>, fetch |-> <<>>, write |-> <<>>]
  /\ run \in CASE entry = "main" -> {Start("search", <<>>, None)}
               [] entry = "fetch_paper_details" ->
                    {Start("fetch", ids, None) : ids \in IdLists}
               [] entry = "extract_paper_data" ->
                    {Start("extract", <<>>, m) : m \in Markups}
  /\ twin = run

Search ==
  /\ entry = "main" /\ run.pc = "search"
  /\ \E response \in SearchResponses :
       /\ run' = main_search(run, args, response)
       /\ twin' = main_search(twin, TwinArgs, response)
       /\ world' = [world EXCEPT !.search = @ \o <<response>>]
  /\ UNCHANGED <<entry, args>>

Fetch ==
  /\ entry = "main" /\ run.pc = "fetch"
  /\ \E response \in FetchResponses :
       /\ run' = main_fetch(run, args, response)
       /\ twin' = main_fetch(twin, TwinArgs, response)
       /\ world' = [world EXCEPT
                      !.fetch = IF run'.requests # run.requests
                                  THEN @ \o <<response.status_code>> ELSE @]
  /\ UNCHANGED <<entry, args>>

Extract ==
  /\ entry = "main" /\ run.pc = "extract"
  /\ run' = main_extract(run, args)
  /\ twin' = main_extract(twin, TwinArgs)
  /\ UNCHANGED <<entry, args, world>>

Report ==
  /\ entry = "main" /\ run.pc = "report"
  /\ \E writable \in IF run.papers # <<>> /\ Truthy(args.file)
                       THEN BOOLEAN ELSE {TRUE} :
       /\ run' = main_report(run, args, writable)
       /\ twin' = main_report(twin, TwinArgs, writable)
       /\ world' = [world EXCEPT
                      !.write = IF run.papers # <<>> /\ Truthy(args.file)
                                  THEN @ \o <<writable>> ELSE @]
  /\ UNCHANGED <<entry, args>>

CallFetch ==
  /\ entry = "fetch_paper_details" /\ run.pc = "fetch"
  /\ \E response \in FetchResponses :
       /\ run' = call_fetch_paper_details(run, args, response)
       /\ twin' = call_fetch_paper_details(twin, TwinArgs, response)
       /\ world' = [world EXCEPT
                      !.fetch = IF run'.requests # run.requests
                                  THEN @ \o <<response.status_code>> ELSE @]
  /\ UNCHANGED <<entry, args>>

CallExtract ==
  /\ entry = "extract_paper_data" /\ run.pc = "extract"
  /\ run' = call_extract_paper_data(run, args)
  /\ twin' = call_extract_paper_data(twin, TwinArgs)
  /\ UNCHANGED <<entry, args, world>>

Next == Search \/ Fetch \/ Extract \/ Report \/ CallFetch \/ CallExtract

Spec == Init /\ [][Next]_vars

(***************************************************************************)
(* Reading the markup directly, for the statements below: the elements on  *)
(* a path of tags, the company affiliations, the expected author entries.  *)
(***************************************************************************)
RECURSIVE Kids(_, _)
Kids(els, tag) ==
  IF els = <<>> THEN <<>>
  ELSE ChildrenOf(els[1], tag) \o Kids(Tail(els), tag)

\* the articles of the markup, in document order
XmlArticles(xml_data) ==
  IF xml_data.k = "text" /\ xml_data.kind = "xml"
       /\ xml_data.root.tag = "PubmedArticleSet"
    THEN ChildrenOf(xml_data.root, "PubmedArticle")
  ELSE <<>>

IsArticleSet(xml_data) ==
  xml_data.k = "text" /\ xml_data.kind = "xml"
    /\ xml_data.root.tag = "PubmedArticleSet"

AuthorEls(article) ==
  Kids(Kids(Kids(Kids(<<article>>, "MedlineCitation"), "Article"),
            "AuthorList"), "Author")

AffiliationEls(author) == Kids(Kids(<<author>>, "AffiliationInfo"), "Affiliation")

PubDateEls(article) ==
  Kids(Kids(Kids(Kids(Kids(<<article>>, "MedlineCitation"), "Article"),
                 "Journal"), "JournalIssue"), "PubDate")

PMIDText(article) == Kids(Kids(<<article>>, "MedlineCitation"), "PMID")[1].text

SameIgnoringCase(a, b) ==
  Len(a) = Len(b) /\ \A i \in DOMAIN a : LowerChar(a[i]) = LowerChar(b[i])

\* the text contains one of the keywords, compared case-insensitively
NamesCompany(text) ==
  \E k \in DOMAIN COMPANY_KEYWORDS :
    \E i \in 1..Len(text) :
      /\ i + Len(COMPANY_KEYWORDS[k]) - 1 <= Len(text)
      /\ SameIgnoringCase(SubSeq(text, i, i + Len(COMPANY_KEYWORDS[k]) - 1),
                          COMPANY_KEYWORDS[k])

AuthorNamesCompany(author) ==
  \E j \in DOMAIN AffiliationEls(author) : NamesCompany(AffiliationEls(author)[j].text)

HasCompanyAffiliation(article) ==
  \E i \in DOMAIN AuthorEls(article) : AuthorNamesCompany(AuthorEls(article)[i])

\* processing the article raises inside the try block
Raises(article) == ProcessArticle(ToValue(article)).fault

PMIDs(papers) == [i \in DOMAIN papers |-> papers[i].PMID.s]
PMIDTexts(articles) == [i \in DOMAIN articles |-> PMIDText(articles[i])]

\* extract_paper_data was called on run.xml_data
ExtractCalled ==
  \/ entry = "extract_paper_data" /\ run.pc # "extract"
  \/ entry = "main" /\ run.pc \in {"report", "done", "raised"}
       /\ ~NoData(run.xml_data)

\* ... and returned run.papers
ExtractReturned == ExtractCalled /\ run.fault # "extract_paper_data"

\* the state right after the call of extract_paper_data
AfterExtract ==
  \/ entry = "extract_paper_data" /\ run.pc # "extract"
  \/ entry = "main" /\ run.pc = "report"
  \/ entry = "main" /\ run.pc = "raised" /\ run.fault = "extract_paper_data"

\* ... when it returned run.papers
Returned == AfterExtract /\ run.fault # "extract_paper_data"

\* the articles that get a record: no fault and a company affiliation
Emitted(xml_data) ==
  SelectSeq(XmlArticles(xml_data),
            LAMBDA a : ~Raises(a) /\ HasCompanyAffiliation(a))

(***************************************************************************)
(* C1                                                                      *)
(***************************************************************************)
\* C1 as stated: the records returned are those of the articles with an
\* author who has an affiliation containing a keyword (case-insensitive).
C1_AsStated ==
  Returned =>
    PMIDs(run.papers) =
      PMIDTexts(SelectSeq(XmlArticles(run.xml_data), HasCompanyAffiliation))

\* C1, amended: the records returned are, in order, those of the articles
\* whose processing raises no exception and that have an author with an
\* affiliation containing a keyword, compared case-insensitively.
C1_PresentIffCompanyAndNoFault ==
  Returned => PMIDs(run.papers) = PMIDTexts(Emitted(run.xml_data))

WithoutCompany(articles) ==
  \E i \in DOMAIN articles :
    ~HasCompanyAffiliation(articles[i]) /\ ~Raises(articles[i])

\* two articles, one with a lower-case company affiliation only, the other
\* without a company affiliation: one record
C1_Witness ==
  /\ Returned
  /\ Len(XmlArticles(run.xml_data)) = 2
  /\ PMIDs(run.papers) = << <<"3">> >>
  /\ WithoutCompany(XmlArticles(run.xml_data))

(***************************************************************************)
(* C2                                                                      *)
(***************************************************************************)
NotRaising(articles) == SelectSeq(articles, LAMBDA a : ~Raises(a))

Values(articles) == [i \in DOMAIN articles |-> ToValue(articles[i])]

\* some article raises, and the papers are those of the loop over the others
SkipsOnlyRaising(papers, articles, others) ==
  Len(others) < Len(articles) => papers = ExtractLoop(Values(others), FALSE).papers

\* C2: when an article of the batch raises, the call still returns, and it
\* returns the records of the loop run over the other articles alone.
C2_FaultSkipsOnlyThatArticle ==
  AfterExtract =>
    /\ XmlArticles(run.xml_data) # <<>> => run.fault # "extract_paper_data"
    /\ SkipsOnlyRaising(run.papers, XmlArticles(run.xml_data),
                        NotRaising(XmlArticles(run.xml_data)))

\* a raising article first, then an article that gets a record
C2_Witness ==
  /\ Returned
  /\ Len(XmlArticles(run.xml_data)) = 2
  /\ Raises(XmlArticles(run.xml_data)[1])
  /\ Len(run.papers) = 1

(***************************************************************************)
(* C3                                                                      *)
(***************************************************************************)
\* C3: for an article set of zero, one or many articles the call returns,
\* with the records of the qualifying articles in article order (none for
\* zero articles).
C3_ZeroOneMany ==
  (AfterExtract /\ IsArticleSet(run.xml_data)) =>
    /\ run.fault # "extract_paper_data"
    /\ PMIDs(run.papers) = PMIDTexts(Emitted(run.xml_data))

(***************************************************************************)
(* C4                                                                      *)
(***************************************************************************)
\* C4: a run of main ends normally, or with the file write raising.
C4_OnlyWriteFaultPropagates ==
  (entry = "main" /\ run.pc = "raised") => run.fault = "save_to_csv"

(***************************************************************************)
(* C5                                                                      *)
(***************************************************************************)
IsFetch(request) == request.url = "efetch.fcgi"

\* the identifiers a search response yields
IdsOf(response) ==
  IF response.status_code = 200 /\ "esearchresult" \in DOMAIN response.json.d
    THEN [i \in DOMAIN response.json.d["esearchresult"].d["idlist"].l |->
            response.json.d["esearchresult"].d["idlist"].l[i].s]
  ELSE <<>>

\* C5: no fetch request carries an empty identifier list; the function
\* called with no identifiers returns None without a request; a run whose
\* search yields no identifiers ends without a fetch request.
C5_NoFetchForNoIds ==
  /\ \A i \in DOMAIN run.requests :
       IsFetch(run.requests[i]) =>
         run.pmids # <<>> /\ run.requests[i].params.id # <<>>
  /\ (entry = "fetch_paper_details" /\ run.pc = "done" /\ run.pmids = <<>>) =>
       run.xml_data = None /\ run.requests = <<>>
  /\ (entry = "main" /\ world.search # <<>> /\ IdsOf(world.search[1]) = <<>>) =>
       run.pc = "done" /\ \A i \in DOMAIN run.requests : ~IsFetch(run.requests[i])

\* the function returned for an empty identifier list
C5_Witness ==
  entry = "fetch_paper_details" /\ run.pc = "done" /\ run.pmids = <<>>

(***************************************************************************)
(* C6                                                                      *)
(***************************************************************************)
\* the text of the author's child element, as the f-string shows it
NamePart(author, tag) ==
  IF Kids(<<author>>, tag) = <<>> THEN <<>>
  ELSE IF Kids(<<author>>, tag)[1].text = <<>> THEN NoneText
  ELSE Kids(<<author>>, tag)[1].text

\* the first affiliation of the author, in document order, that names a company
FirstCompany(author) ==
  AffiliationEls(author)[
    CHOOSE j \in DOMAIN AffiliationEls(author) :
      /\ NamesCompany(AffiliationEls(author)[j].text)
      /\ \A i \in 1..(j - 1) : ~NamesCompany(AffiliationEls(author)[i].text)].text

ExpectedEntry(author) ==
  strip(NamePart(author, "ForeName") \o <<" ">> \o NamePart(author, "LastName"))
    \o <<" ", "(">> \o FirstCompany(author) \o <<")">>

\* one entry for each author with a company affiliation, in author order
ExpectedEntries(article) ==
  [i \in DOMAIN SelectSeq(AuthorEls(article), AuthorNamesCompany) |->
     ExpectedEntry(SelectSeq(AuthorEls(article), AuthorNamesCompany)[i])]

EntriesAsExpected(papers, emitted) ==
  /\ Len(papers) = Len(emitted)
  /\ \A k \in DOMAIN papers :
       papers[k].Non_Academic_Authors.s =
         join(<<";", " ">>, ExpectedEntries(emitted[k]))

\* C6: the author list of every record holds one entry for each author with
\* a matching affiliation, "name (affiliation)" with the first matching
\* affiliation of that author, and nothing else.
C6_OneEntryFirstMatch ==
  Returned => EntriesAsExpected(run.papers, Emitted(run.xml_data))

\* a record for the article whose first author has two company affiliations
C6_Witness ==
  /\ Returned
  /\ \E k \in DOMAIN run.papers : run.papers[k].PMID.s = <<"4">>

(***************************************************************************)
(* C7                                                                      *)
(***************************************************************************)
\* the text up to the first space
FirstWord(text) ==
  IF \E i \in DOMAIN text : text[i] = " "
    THEN SubSeq(text, 1,
                (CHOOSE i \in DOMAIN text :
                   text[i] = " " /\ \A j \in 1..(i - 1) : text[j] # " ") - 1)
  ELSE text

YearEls(article) == Kids(PubDateEls(article), "Year")
MedlineDateEls(article) == Kids(PubDateEls(article), "MedlineDate")

ExpectedDate(article) ==
  IF YearEls(article) # <<>> THEN ToValue(YearEls(article)[1])
  ELSE IF MedlineDateEls(article) # <<>>
    THEN Str(FirstWord(MedlineDateEls(article)[1].text))
  ELSE Str(UnknownDate)

NeitherField(article) == YearEls(article) = <<>> /\ MedlineDateEls(article) = <<>>

DatesAsExpected(papers, emitted) ==
  /\ Len(papers) = Len(emitted)
  /\ \A k \in DOMAIN papers :
       papers[k].Publication_Date = ExpectedDate(emitted[k])

HasUnknownDate(papers, article) ==
  \E k \in DOMAIN papers :
    /\ papers[k].PMID.s = PMIDText(article)
    /\ papers[k].Publication_Date = Str(UnknownDate)

\* C7 as stated: the date of every record is the Year, else the first token
\* of the MedlineDate, else "Unknown Date"; and every article with a company
\* affiliation and neither field has a record, dated "Unknown Date".
C7_AsStated ==
  Returned =>
    /\ DatesAsExpected(run.papers, Emitted(run.xml_data))
    /\ \A i \in DOMAIN XmlArticles(run.xml_data) :
         (NeitherField(XmlArticles(run.xml_data)[i])
            /\ HasCompanyAffiliation(XmlArticles(run.xml_data)[i]))
           => HasUnknownDate(run.papers, XmlArticles(run.xml_data)[i])

\* C7, amended: the date of every record is the Year, else the first token
\* of the MedlineDate, else "Unknown Date"; and every article with a company
\* affiliation and neither field whose processing raises no exception has a
\* record, dated "Unknown Date".
C7_DateFallback ==
  Returned =>
    /\ DatesAsExpected(run.papers, Emitted(run.xml_data))
    /\ \A i \in DOMAIN XmlArticles(run.xml_data) :
         (NeitherField(XmlArticles(run.xml_data)[i])
            /\ HasCompanyAffiliation(XmlArticles(run.xml_data)[i])
            /\ ~Raises(XmlArticles(run.xml_data)[i]))
           => HasUnknownDate(run.papers, XmlArticles(run.xml_data)[i])

\* a record dated from a MedlineDate, then a record without a date
C7_Witness ==
  /\ Returned
  /\ Len(run.papers) = 2
  /\ run.papers[1].Publication_Date = Str(Year2020)
  /\ run.papers[2].Publication_Date = Str(UnknownDate)

(***************************************************************************)
(* C8                                                                      *)
(***************************************************************************)
\* C8: a file is written only when a path is given and a record qualifies;
\* a run whose extraction returns no record writes no file and ends with
\* the "no papers found" line.
C8_NoFileWithoutPapers ==
  entry = "main" =>
    /\ run.disk # <<>> => Truthy(args.file) /\ run.papers # <<>> /\ ExtractReturned
    /\ (ExtractReturned /\ run.papers = <<>> /\ run.pc = "done") =>
         /\ run.disk = <<>>
         /\ run.console[Len(run.console)].msg =
              "No papers found with non-academic authors."

\* a finished run with a file path and no record
C8_Witness ==
  /\ entry = "main" /\ run.pc = "done" /\ ExtractReturned
  /\ run.papers = <<>> /\ args.file = OutPath

(***************************************************************************)
(* C9                                                                      *)
(***************************************************************************)
\* C9: the run with the debug flag the other way and the same responses is
\* at the same place, with the same locals, requests, console lines other
\* than debug lines and files; without the flag no debug line is printed.
C9_DebugOnlyPrints ==
  /\ [run EXCEPT !.diag = <<>>] = [twin EXCEPT !.diag = <<>>]
  /\ ~args.debug => run.diag = <<>>
  /\ args.debug => twin.diag = <<>>

\* a finished debug run that printed debug lines and wrote a file
C9_Witness ==
  /\ entry = "main" /\ args.debug /\ run.pc = "done"
  /\ run.diag # <<>> /\ twin.diag = <<>> /\ run.disk # <<>>

(***************************************************************************)
(* C10                                                                     *)
(***************************************************************************)
ReportLines ==
  {"Extracted Papers:", "No papers found with non-academic authors.",
   "Saved papers with non-academic authors to"}

Reported ==
  run.disk # <<>> \/ \E i \in DOMAIN run.console : run.console[i].msg \in ReportLines

\* C10: one search request, issued first; at most one fetch request, after
\* the search response and carrying all the identifiers it returned;
\* extraction only after a fetch answered 200; reporting only after
\* extraction returned; no request is issued twice.
C10_SequentialNoRetry ==
  entry = "main" =>
    /\ run.pc = "search" <=> run.requests = <<>>
    /\ run.pc # "search" =>
         /\ run.requests[1] = SearchRequest(args.query, args.max)
         /\ Len(world.search) = 1
    /\ Len(run.requests) <= 2 /\ Len(world.fetch) <= 1
    /\ run.pc = "fetch" => Len(run.requests) = 1
    /\ Len(run.requests) = 2 =>
         /\ IsFetch(run.requests[2])
         /\ world.search[1].status_code = 200
         /\ run.requests[2].params.id = join(<<",">>, IdsOf(world.search[1]))
    /\ (run.pc \in {"extract", "report"} \/ ExtractCalled) =>
         Len(run.requests) = 2 /\ world.fetch = <<200>>
    /\ Reported => ExtractReturned

\* a finished run that fetched two identifiers and wrote a file
C10_Witness ==
  /\ entry = "main" /\ run.pc = "done" /\ Len(run.requests) = 2
  /\ Len(run.pmids) = 2 /\ run.disk # <<>>

====
